---- MODULE Spec2Model ----
(***************************************************************************)
(* State-machine model of IcePAPTriggerController                          *)
(* (sardana_icepap/ctrl/IcePAPTriggerController.py).                       *)
(*                                                                         *)
(* Every controller method is one atomic action.  The hardware link        *)
(* (icepap library) and the device proxy (taurus) are the environment:     *)
(* each call made to them is appended to the call log of the operation     *)
(* and may fail, as chosen by the oracle the action draws.  Positions are  *)
(* exact rationals <<numerator, denominator>>; floating-point rounding is  *)
(* not modelled.                                                           *)
(***************************************************************************)
EXTENDS Integers, Sequences, FiniteSets

(***************************************************************************)
(* Bounds of the model.                                                    *)
(***************************************************************************)
MaxMotor == 2

MaxPoints == 3

MaxPosition == 1

(***************************************************************************)
(* Module constants of the source.                                         *)
(***************************************************************************)
LOW == "low"

HIGH == "high"

ECAM == "ecam"

MAX_ECAM_VALUES == 20477

ECAM_SOURCE_VALUES == {"ENCIN", "ABSENC", "INPOS"}

(***************************************************************************)
(* The exceptions the controller raises, by type and message.              *)
(***************************************************************************)
\* SynchOne, line 263: ValueError(msg).
UnsupportedMultiplePulses ==
    "ValueError: not allowed to generate multiple trigger synchronized by time"

\* SynchOne, line 329: RuntimeError(msg).
TableTooLarge ==
    "RuntimeError: The Trigger by position not accept more than 20477 positions"

\* SynchOne, line 347.
TableLoadFailed == "RuntimeError: Can not send trigger table."

\* SetAxisPar, line 357.
UnsupportedAxisPar == "ValueError: unsupported axis par"

\* Raised by the icepap library or the device proxy when a call fails.
LinkError == "Exception: link"

\* self._ipap[None]: there is no such axis.
NoSuchAxis == "Exception: no axis"

\* Python's None for _last_id and _motor_axis (motor ids are 1..MaxMotor).
None == 0

Motors == 1..MaxMotor

\* Trigger/gate axes the framework addresses: 0 (line e0) and one other.
Axes == {0, 1}

\* AxisInfos property, default 'InfoA', split on commas.
AxisInfos == <<"InfoA">>

\* Timeout property in tenths of a second: 1.4 s and 4.0 s.
TimeoutTenths == {14, 40}

(***************************************************************************)
(* Exact rational arithmetic for Python's float expressions.               *)
(***************************************************************************)
Abs(x) == IF x < 0 THEN -x ELSE x

RECURSIVE Gcd(_, _)
Gcd(a, b) == IF b = 0 THEN a ELSE Gcd(b, a % b)

Rat(n, d) ==
    LET g == Gcd(Abs(n), Abs(d))
        sgn == IF d < 0 THEN -1 ELSE 1
    IN  <<sgn * (n \div g), sgn * (d \div g)>>

RInt(n) == <<n, 1>>

RAdd(a, b) == Rat(a[1] * b[2] + b[1] * a[2], a[2] * b[2])

RSub(a, b) == Rat(a[1] * b[2] - b[1] * a[2], a[2] * b[2])

RMul(a, b) ==
    LET x == Rat(a[1], b[2])
        y == Rat(b[1], a[2])
    IN  Rat(x[1] * y[1], x[2] * y[2])

RDiv(a, b) == RMul(a, Rat(b[2], b[1]))

RLess(a, b) == a[1] * b[2] < b[1] * a[2]

(***************************************************************************)
(* The environment: device configuration registers and the property bag.   *)
(***************************************************************************)
\* str.upper() on the source names that occur.
Upper(s) ==
    CASE s = "encin" -> "ENCIN"
      [] s = "absenc" -> "ABSENC"
      [] s = "inpos" -> "INPOS"
      [] s = "tgtenc" -> "TGTENC"
      [] s = "axis" -> "AXIS"
      [] OTHER -> s

\* Resolution registers of the device, as int(motor.get_cfg(key)[key]).
CfgReg(key) ==
    CASE key = "ANSTEP" -> 8000
      [] key = "ANTURN" -> 1
      [] key = "EINNSTEP" -> 10000
      [] key = "EINNTURN" -> 1
      [] key = "ABSNSTEP" -> 2000
      [] key = "ABSNTURN" -> 3
      [] key = "INPNSTEP" -> 8000
      [] key = "INPNTURN" -> 2

\* Values the TGTENC register of the device may hold.
TgtencValues == {"NONE", "ABSENC"}

\* EcamSource property after eval(): '' (no dict) or a dict axis -> name.
EcamSourceChoices ==
    { <<>>, [m \in {1, 2} |-> IF m = 1 THEN "encin" ELSE "TGTENC"] }

\* step_per_unit attribute of the motor device motor/<alias>/<id>.
StepPerUnit(id) == IF id = 1 THEN 100 ELSE 1

\* The external motor's scale may be changed between two reads of it: the
\* factor on step_per_unit that a read finds.
Scales == {1, 2}

VARIABLES
    _time_mode,          \* self._time_mode
    _start_trigger_only, \* self._start_trigger_only
    _retries_nr,         \* self._retries_nr
    _last_id,            \* self._last_id
    _motor_axis,         \* self._motor_axis
    _motor_spu,          \* self._motor_spu
    _is_tgtenc,          \* self._is_tgtenc
    _ecam_source_dict,   \* self._ecam_source_dict
    _ecam_source,        \* self._ecam_source
    pmux,                \* device: position-multiplexer links <<axis, line>>
    tgtenc,              \* device: TGTENC configuration register
    last                 \* probe: one operation, its inputs, result and calls

vars == <<_time_mode, _start_trigger_only, _retries_nr, _last_id, _motor_axis,
          _motor_spu, _is_tgtenc, _ecam_source_dict, _ecam_source, pmux,
          tgtenc, last>>

\* __init__: 3 // (Timeout + 0.1), at least 1.
RetriesNr(timeout10) ==
    LET n == 30 \div (timeout10 + 1)
    IN  IF n = 0 THEN 1 ELSE n

NoOp == [op |-> "init", arg |-> <<>>, exc |-> "none", ret |-> "None",
         calls |-> <<>>, pre_last_id |-> None, pre_time_mode |-> FALSE,
         pre |-> <<>>]

Init ==
    /\ _time_mode = FALSE
    /\ _start_trigger_only = FALSE
    /\ \E t \in TimeoutTenths : _retries_nr = RetriesNr(t)
    /\ _last_id = None
    /\ _motor_axis = None
    /\ _motor_spu = 1
    /\ _is_tgtenc = FALSE
    /\ _ecam_source_dict \in EcamSourceChoices
    /\ _ecam_source = "AXIS"
    /\ pmux = {}
    /\ tgtenc \in TgtencValues
    /\ last = NoOp

(***************************************************************************)
(* The running operation: the controller's fields, the device's links,     *)
(* the calls made so far (n of them not retried), and how it ends.         *)
(***************************************************************************)
Self ==
    [_time_mode |-> _time_mode, _start_trigger_only |-> _start_trigger_only,
     _retries_nr |-> _retries_nr, _last_id |-> _last_id,
     _motor_axis |-> _motor_axis, _motor_spu |-> _motor_spu,
     _is_tgtenc |-> _is_tgtenc, _ecam_source_dict |-> _ecam_source_dict,
     _ecam_source |-> _ecam_source, pmux |-> pmux,
     scale |-> 1, n |-> 0, calls |-> <<>>, exc |-> "none", ret |-> "None"]

Call(name, arg, ok) == [call |-> name, arg |-> arg, ok |-> ok]

\* A call on the link or the proxy outside any retry loop: the f-th such
\* call of the operation raises (f = 0: none does).
Hw(s, f, name, arg) ==
    LET k == s.n + 1
    IN  [s EXCEPT !.n = k,
                  !.calls = Append(@, Call(name, arg, k # f)),
                  !.exc = IF k # f THEN "none" ELSE LinkError]

Raise(s, e) == [s EXCEPT !.exc = e]

Failed(s) == s.exc # "none"

\* _set_out, lines 144-149: keep the configured source if it is supported.
ResolveSource(s, enc) ==
    IF enc \in ECAM_SOURCE_VALUES
    THEN [s EXCEPT !._ecam_source = s._ecam_source_dict[s._motor_axis]]
    ELSE [s EXCEPT !._ecam_source = "AXIS"]

\* _set_out, lines 153-154: setattr(motor, info_out, value) for each info.
RECURSIVE WriteInfos(_, _, _, _)
WriteInfos(s, f, out, i) ==
    IF i > Len(AxisInfos) THEN s
    ELSE LET s1 == Hw(s, f, AxisInfos[i], out)
         IN  IF Failed(s1) THEN s1 ELSE WriteInfos(s1, f, out, i + 1)

set_out(s, f, out, axis) ==
    IF s._motor_axis = None THEN Raise(s, NoSuchAxis)
    ELSE IF axis = 0 THEN
        LET s1 == Hw(s, f, "syncaux", out)
            d == s1._ecam_source_dict
        IN  IF Failed(s1) THEN s1
            ELSE IF DOMAIN d # {} /\ s1._motor_axis \in DOMAIN d THEN
                LET enc == Upper(d[s1._motor_axis])
                IN  IF enc = "TGTENC" THEN
                        LET s2 == Hw(s1, f, "get_cfg", "TGTENC")
                        IN  IF Failed(s2) THEN s2
                            ELSE ResolveSource(
                                   [s2 EXCEPT !._ecam_source_dict[s2._motor_axis]
                                                  = tgtenc],
                                   tgtenc)
                    ELSE ResolveSource(s1, enc)
            ELSE [s1 EXCEPT !._ecam_source = "AXIS"]
    ELSE WriteInfos(s, f, out, 1)

\* Mutant of ConnectMotor: the previous connection is not removed.
ConnectMotorNoClear(s, f) ==
    LET s1 == Hw(s, f, "get_pmux", "")
        s4 == Hw(s1, f, "add_pmux", s1._motor_axis)
        s5 == [s4 EXCEPT !.pmux = @ \cup {<<s4._motor_axis, "E0">>}]
    IN  IF Failed(s1) THEN s1
        ELSE IF Failed(s4) THEN s4
        ELSE Hw(s5, f, "get_pmux", "")

\* _configureMotor, lines 169-180: the multiplexer reconfiguration.
ConnectMotor(s, f) ==
    LET s1 == Hw(s, f, "get_pmux", "")
        hasE0 == \E l \in s1.pmux : l[2] = "E0"
        s2 == IF hasE0 THEN Hw(s1, f, "clear_pmux", "e0") ELSE s1
        s3 == IF hasE0 /\ ~Failed(s2)
              THEN [s2 EXCEPT !.pmux = {l \in @ : l[2] # "E0"}] ELSE s2
        s4 == Hw(s3, f, "add_pmux", s3._motor_axis)
        s5 == [s4 EXCEPT !.pmux = @ \cup {<<s4._motor_axis, "E0">>}]
    IN  IF Failed(s1) THEN s1
        ELSE IF Failed(s2) THEN s2
        ELSE IF Failed(s4) THEN s4
        ELSE Hw(s5, f, "get_pmux", "")

\* Mutant of configureMotor: no early return for the motor already bound.
configureMotorAlways(s, f, id_, axis) ==
    LET s1 == Hw(s, f, "Device", id_)
        s2 == Hw([s1 EXCEPT !._motor_axis = id_], f, "read_attribute", id_)
        s3 == [s2 EXCEPT !._motor_spu = StepPerUnit(id_) * s2.scale,
                         !._last_id = id_]
    IN  IF Failed(s1) THEN s1
        ELSE IF Failed(s2) THEN s2
        ELSE IF axis = 0 THEN ConnectMotor(s3, f)
        ELSE s3

\* Mutant of configureMotor: the early return precedes the read of
\* step_per_unit.
configureMotorCached(s, f, id_, axis) ==
    LET s1 == Hw(s, f, "Device", id_)
        s2 == Hw([s1 EXCEPT !._motor_axis = id_], f, "read_attribute", id_)
        s3 == [s2 EXCEPT !._motor_spu = StepPerUnit(id_) * s2.scale]
    IN  IF id_ = s._last_id THEN s
        ELSE IF Failed(s1) THEN s1
        ELSE IF Failed(s2) THEN s2
        ELSE IF axis = 0 THEN ConnectMotor([s3 EXCEPT !._last_id = id_], f)
        ELSE [s3 EXCEPT !._last_id = id_]

configureMotor(s, f, id_, axis) ==
    LET s1 == Hw(s, f, "Device", id_)
        s2 == Hw([s1 EXCEPT !._motor_axis = id_], f, "read_attribute", id_)
        s3 == [s2 EXCEPT !._motor_spu = StepPerUnit(id_) * s2.scale]
    IN  IF Failed(s1) THEN s1
        ELSE IF Failed(s2) THEN s2
        ELSE IF id_ = s3._last_id THEN s3
        ELSE IF axis = 0 THEN ConnectMotor([s3 EXCEPT !._last_id = id_], f)
        ELSE [s3 EXCEPT !._last_id = id_]

(***************************************************************************)
(* StateOne.                                                               *)
(***************************************************************************)
\* What the axis state read may report: is_poweron, is_moving, is_settling.
HwStates == [poweron : BOOLEAN, moving : BOOLEAN, settling : BOOLEAN]

\* for i in range(self._retries_nr): try: hw_state = ...state; break.
\* r[i] says whether attempt i raises; ret = "read" marks hw_state set.
RECURSIVE StateReads(_, _, _)
StateReads(s, i, r) ==
    IF i > s._retries_nr THEN s
    ELSE LET s1 == [s EXCEPT !.calls = Append(@, Call("state", "", ~r[i]))]
         IN  IF ~r[i] THEN [s1 EXCEPT !.ret = "read"]
             ELSE StateReads(s1, i + 1, r)

\* Mutant of Classify: a settling axis is not reported as moving.
ClassifySettlingIgnored(read, st) ==
    IF ~read \/ ~st.poweron
    THEN <<"Alarm", "The motor is power off or not possible to read State">>
    ELSE IF st.moving THEN <<"Moving", "Moving">>
    ELSE <<"On", "Motor is not generating triggers.">>

\* Mutant of Classify: hw_state is None is not checked.
ClassifyUnread(read, st) ==
    IF ~st.poweron
    THEN <<"Alarm", "The motor is power off or not possible to read State">>
    ELSE IF st.moving \/ st.settling THEN <<"Moving", "Moving">>
    ELSE <<"On", "Motor is not generating triggers.">>

\* Lines 214-221: the classification of the state read (or of None).
Classify(read, st) ==
    IF ~read \/ ~st.poweron
    THEN <<"Alarm", "The motor is power off or not possible to read State">>
    ELSE IF st.moving \/ st.settling THEN <<"Moving", "Moving">>
    ELSE <<"On", "Motor is not generating triggers.">>

StateOne(s, r, st) ==
    IF s._motor_axis # None
    THEN LET s1 == StateReads(s, 1, r)
         IN  [s1 EXCEPT !.ret = Classify(s1.ret = "read", st)]
    ELSE [s EXCEPT !.ret = <<"On", "No synchronization in progress">>]

(***************************************************************************)
(* PreStartOne, StartOne, AbortOne.                                        *)
(***************************************************************************)
\* Mutant of PreStartOne: the two branches are exchanged.
PreStartOneSwapped(s, f, axis) ==
    LET s1 == IF s._time_mode THEN set_out(s, f, ECAM, axis)
              ELSE set_out(s, f, LOW, axis)
    IN  IF Failed(s1) THEN s1 ELSE [s1 EXCEPT !.ret = "True"]

PreStartOne(s, f, axis) ==
    LET s1 == IF s._time_mode THEN set_out(s, f, LOW, axis)
              ELSE set_out(s, f, ECAM, axis)
    IN  IF Failed(s1) THEN s1 ELSE [s1 EXCEPT !.ret = "True"]

\* self._ipap[self._motor_axis].name, then .esync()
SendEsync(s, f) ==
    IF s._motor_axis = None THEN Raise(s, NoSuchAxis)
    ELSE LET s1 == Hw(s, f, "name", "")
         IN  IF Failed(s1) THEN s1 ELSE Hw(s1, f, "esync", "")

StartOne(s, f, axis) ==
    IF s._time_mode
    THEN LET s1 == set_out(s, f, HIGH, axis)
         IN  IF Failed(s1) THEN s1 ELSE set_out(s1, f, LOW, axis)
    ELSE IF s._is_tgtenc THEN SendEsync(s, f)
    ELSE s

AbortOne(s, f, axis) == set_out(s, f, LOW, axis)

(***************************************************************************)
(* SynchOne.                                                               *)
(***************************************************************************)
\* numpy.linspace(start, stop, num): arange(num) * step + start with
\* step = (stop - start) / (num - 1), and the last sample set to stop.
Linspace(start, stop, num) ==
    [i \in 1..num |->
        IF num = 1 THEN start
        ELSE IF i = num THEN stop
        ELSE RAdd(RMul(RInt(i - 1), RDiv(RSub(stop, start), RInt(num - 1))),
                  start)]

\* Lines 291-302: the registers holding the selected encoder's resolution.
CfgKeys(enc) ==
    CASE enc = "ENCIN" -> <<"EINNSTEP", "EINNTURN">>
      [] enc = "ABSENC" -> <<"ABSNSTEP", "ABSNTURN">>
      [] enc = "INPOS" -> <<"INPNSTEP", "INPNTURN">>
      [] OTHER -> <<"ANSTEP", "ANTURN">>

\* Lines 304-307: the four register reads, in evaluation order.
ReadResolutions(s, f, enc) ==
    LET s1 == Hw(s, f, "get_cfg", CfgKeys(enc)[1])
        s2 == Hw(s1, f, "get_cfg", CfgKeys(enc)[2])
        s3 == Hw(s2, f, "get_cfg", "ANSTEP")
        s4 == Hw(s3, f, "get_cfg", "ANTURN")
    IN  IF Failed(s1) THEN s1
        ELSE IF Failed(s2) THEN s2
        ELSE IF Failed(s3) THEN s3
        ELSE s4

\* Lines 304-310: (value / motor_resol) * enc_resol.
ToEncoder(value, enc) ==
    LET enc_resol == RDiv(RInt(CfgReg(CfgKeys(enc)[1])),
                          RInt(CfgReg(CfgKeys(enc)[2])))
        motor_resol == RDiv(RInt(CfgReg("ANSTEP")), RInt(CfgReg("ANTURN")))
    IN  RMul(RDiv(value, motor_resol), enc_resol)

\* Mutant of TooLarge: the limit is compared one point too high.
TooLargeOffByOne(nr_points) == nr_points > MAX_ECAM_VALUES + 1

\* Line 326: the size check of the table builder.
TooLarge(nr_points) == nr_points > MAX_ECAM_VALUES

\* Mutant of TriggerTable: the StartTriggerOnly flag is not looked at.
TriggerTableAlways(s, start, end, delta, nr_points) ==
    Linspace(start, RSub(end, delta), nr_points)

\* Mutant of TriggerTable: the table runs up to end, one point more.
TriggerTableWithEnd(s, start, end, delta, nr_points) ==
    IF s._start_trigger_only THEN <<start>>
    ELSE Linspace(start, end, nr_points + 1)

\* Mutant of TriggerTable: the last point is end, not end - delta.
TriggerTableToEnd(s, start, end, delta, nr_points) ==
    IF s._start_trigger_only THEN <<start>>
    ELSE Linspace(start, end, nr_points)

\* Lines 323-334, after the size check: the trigger table.
TriggerTable(s, start, end, delta, nr_points) ==
    IF s._start_trigger_only THEN <<start>>
    ELSE Linspace(start, RSub(end, delta), nr_points)

\* Mutant of LoadTable: the break after a successful attempt is missing.
RECURSIVE LoadTableNoBreak(_, _, _, _)
LoadTableNoBreak(s, i, r, table) ==
    IF i > s._retries_nr
    THEN IF \E k \in 1..Len(s.calls) :
               s.calls[k].call = "set_ecam_table" /\ s.calls[k].ok
         THEN s ELSE Raise(s, TableLoadFailed)
    ELSE LoadTableNoBreak(
             [s EXCEPT !.calls =
                 Append(@, Call("set_ecam_table",
                                [table |-> table, source |-> s._ecam_source],
                                ~r[i]))],
             i + 1, r, table)

\* Lines 336-347: for i in range(self._retries_nr): try: set_ecam_table.
RECURSIVE LoadTable(_, _, _, _)
LoadTable(s, i, r, table) ==
    IF i > s._retries_nr THEN Raise(s, TableLoadFailed)
    ELSE LET s1 == [s EXCEPT !.calls =
                       Append(@, Call("set_ecam_table",
                                      [table |-> table,
                                       source |-> s._ecam_source], ~r[i]))]
         IN  IF ~r[i] THEN s1 ELSE LoadTable(s1, i + 1, r, table)

\* Lines 279-347: positions, conversion, table and load.
SynchPosition(s, f, r, cfg) ==
    LET start0 == RInt(cfg.start * s._motor_spu)
        delta0 == RInt(cfg.delta * s._motor_spu)
        end0 == RAdd(start0, RMul(delta0, RInt(cfg.nr)))
        enc == Upper(s._ecam_source)
        s1 == IF enc # "AXIS" THEN ReadResolutions(s, f, enc) ELSE s
        start == IF enc # "AXIS" THEN ToEncoder(start0, enc) ELSE start0
        delta == IF enc # "AXIS" THEN ToEncoder(delta0, enc) ELSE delta0
        end == IF enc # "AXIS" THEN ToEncoder(end0, enc) ELSE end0
    IN  IF Failed(s1) THEN s1
        ELSE IF ~s1._start_trigger_only /\ TooLarge(cfg.nr)
        THEN Raise(s1, TableTooLarge)
        ELSE LoadTable(s1, 1, r, TriggerTable(s1, start, end, delta, cfg.nr))

\* Mutant of SynchTime: the number of repeats is not checked.
SynchTimeUnchecked(s, cfg) == [s EXCEPT !._time_mode = TRUE]

\* Lines 258-266: synchronization by time.
SynchTime(s, cfg) ==
    IF cfg.nr > 1 THEN Raise(s, UnsupportedMultiplePulses)
    ELSE [s EXCEPT !._time_mode = TRUE]

SynchOne(s, f, r, cfg) ==
    IF ~cfg.initial THEN SynchTime(s, cfg)
    ELSE LET s0 == [s EXCEPT !._time_mode = FALSE]
             s1 == Hw(s0, f, "get_cfg", "TGTENC")
         IN  IF s0._motor_axis = None THEN [s0 EXCEPT !.ret = "False"]
             ELSE IF Failed(s1) THEN [s1 EXCEPT !.exc = "none", !.ret = "False"]
             ELSE SynchPosition([s1 EXCEPT !._is_tgtenc = (tgtenc = "NONE")],
                                f, r, cfg)

(***************************************************************************)
(* SetAxisPar and the StartTriggerOnly attribute.                          *)
(***************************************************************************)
SetAxisPar(s, f, axis, par, value) ==
    IF axis = 0 /\ par = "active_input" THEN configureMotor(s, f, value, axis)
    ELSE Raise(s, UnsupportedAxisPar)

setStartTriggerOnly(s, value) == [s EXCEPT !._start_trigger_only = value]

getStartTriggerOnly(s) == [s EXCEPT !.ret = s._start_trigger_only]

(***************************************************************************)
(* Inputs of the operations.                                               *)
(***************************************************************************)
\* SynchParam.Repeats of the synchronization group.
Repeats == (1..MaxPoints) \cup {MAX_ECAM_VALUES + 1}

\* Synchronization groups: without SynchParam.Initial (by time), or with
\* Initial and Total positions in user units.
Configurations ==
    {[initial |-> FALSE, nr |-> n, start |-> 0, delta |-> 0] : n \in Repeats}
    \cup
    [initial : {TRUE}, nr : Repeats, start : 0..MaxPosition,
     delta : (-MaxPosition)..MaxPosition]

\* The synchronization groups tried on a failing link.
FaultConfigurations ==
    {c \in Configurations : c.initial /\ c.start = 1 /\ c.delta = 1}

\* Outcomes of the attempts of a retry loop: r[i] = attempt i raises.
Patterns == [1.._retries_nr -> BOOLEAN]

NoFailure == [i \in 1.._retries_nr |-> FALSE]

Unread == [poweron |-> FALSE, moving |-> FALSE, settling |-> FALSE]

\* Which call outside a retry loop raises: none (0), or any one of the
\* calls that the run without failures makes.
FailAt(s) == 0..s.n

(***************************************************************************)
(* The operations as actions: the handler runs on Self and its result is   *)
(* stored.  `last` is a probe on one operation: an operation is either     *)
(* recorded in it with its inputs, result, calls and the state it started  *)
(* from (rec), and the run is then not extended, or it runs unrecorded.    *)
(***************************************************************************)
Finish(op, arg, s, rec) ==
    /\ _time_mode' = s._time_mode
    /\ _start_trigger_only' = s._start_trigger_only
    /\ _last_id' = s._last_id
    /\ _motor_axis' = s._motor_axis
    /\ _motor_spu' = s._motor_spu
    /\ _is_tgtenc' = s._is_tgtenc
    /\ _ecam_source_dict' = s._ecam_source_dict
    /\ _ecam_source' = s._ecam_source
    /\ pmux' = s.pmux
    /\ last' = IF rec
               THEN [op |-> op, arg |-> arg, exc |-> s.exc, ret |-> s.ret,
                     calls |-> s.calls, pre_last_id |-> _last_id,
                     pre_time_mode |-> _time_mode, pre |-> Self]
               ELSE NoOp
    /\ UNCHANGED <<_retries_nr, tgtenc>>

OpStateOne ==
    /\ last = NoOp
    /\ \E r \in Patterns, st \in HwStates, rec \in BOOLEAN :
           LET s == StateOne(Self, r, st)
               read == \E i \in 1..Len(s.calls) : s.calls[i].ok
           IN  Finish("StateOne", IF read THEN st ELSE Unread, s, rec)

OpPreStartOne ==
    /\ last = NoOp
    /\ \E axis \in Axes, rec \in BOOLEAN :
           \E f \in FailAt(PreStartOne(Self, 0, axis)) :
               Finish("PreStartOne", [axis |-> axis],
                         PreStartOne(Self, f, axis), rec)

OpStartOne ==
    /\ last = NoOp
    /\ \E axis \in Axes, rec \in BOOLEAN :
           \E f \in FailAt(StartOne(Self, 0, axis)) :
               Finish("StartOne", [axis |-> axis], StartOne(Self, f, axis),
                         rec)

OpAbortOne ==
    /\ last = NoOp
    /\ \E axis \in Axes, rec \in BOOLEAN :
           \E f \in FailAt(AbortOne(Self, 0, axis)) :
               Finish("AbortOne", [axis |-> axis], AbortOne(Self, f, axis),
                         rec)

\* A configure on a link that answers every call.
OpSynchOne ==
    /\ last = NoOp
    /\ \E cfg \in Configurations, rec \in BOOLEAN :
           Finish("SynchOne", cfg, SynchOne(Self, 0, NoFailure, cfg), rec)

\* A configure on a failing link: either one call outside the retry loop
\* raises, or the attempts of the retry loop (reached only when none does)
\* follow the pattern r.
OpSynchOneLinkError ==
    /\ last = NoOp
    /\ \E cfg \in FaultConfigurations, rec \in BOOLEAN :
           \E f \in FailAt(SynchOne(Self, 0, NoFailure, cfg)), r \in Patterns :
               /\ (f = 0) # (r = NoFailure)
               /\ Finish("SynchOne", cfg, SynchOne(Self, f, r, cfg), rec)

OpSetAxisPar ==
    /\ last = NoOp
    /\ \E axis \in Axes, par \in {"active_input", "other"}, value \in Motors,
          scale \in Scales, rec \in BOOLEAN :
           \E f \in FailAt(SetAxisPar(Self, 0, axis, par, value)) :
               /\ Finish("SetAxisPar",
                         [axis |-> axis, par |-> par, value |-> value,
                          scale |-> scale],
                         SetAxisPar([Self EXCEPT !.scale = scale], f, axis,
                                    par, value), rec)

OpSetStartTriggerOnly ==
    /\ last = NoOp
    /\ \E value \in BOOLEAN, rec \in BOOLEAN :
           Finish("setStartTriggerOnly", [value |-> value],
                     setStartTriggerOnly(Self, value), rec)

OpGetStartTriggerOnly ==
    /\ last = NoOp
    /\ \E rec \in BOOLEAN :
           Finish("getStartTriggerOnly", <<>>, getStartTriggerOnly(Self), rec)

Next ==
    \/ OpStateOne
    \/ OpPreStartOne
    \/ OpStartOne
    \/ OpAbortOne
    \/ OpSynchOne
    \/ OpSynchOneLinkError
    \/ OpSetAxisPar
    \/ OpSetStartTriggerOnly
    \/ OpGetStartTriggerOnly

Spec == Init /\ [][Next]_vars

(***************************************************************************)
(* Reading the probe.                                                      *)
(***************************************************************************)
CallsOf(name) == SelectSeq(last.calls, LAMBDA c : c.call = name)

Loads == CallsOf("set_ecam_table")

Configured == last.op = "SynchOne"

PositionDriven == Configured /\ last.arg.initial

TimeDriven == Configured /\ ~last.arg.initial

AllFailed(calls) == \A i \in 1..Len(calls) : ~calls[i].ok

(***************************************************************************)
(* C1: a PositionDriven configure makes at most _retries_nr table-load     *)
(* attempts.  Every attempt but the last has failed; if the last attempt   *)
(* succeeds the configure completes without error, and if it fails it was  *)
(* attempt number _retries_nr and the configure raises TableLoadFailed.    *)
(* No call follows the last attempt.                                       *)
(***************************************************************************)
C1_BoundedTableLoad ==
    PositionDriven =>
        LET n == Len(Loads)
            m == Len(last.calls)
        IN  /\ n <= _retries_nr
            /\ \A i \in 1..(n - 1) : ~Loads[i].ok
            /\ n > 0 =>
                /\ last.calls[m] = Loads[n]
                /\ Loads[n].ok => last.exc = "none" /\ last.ret = "None"
                /\ ~Loads[n].ok => n = _retries_nr /\ last.exc = TableLoadFailed
            /\ last.exc = TableLoadFailed => n = _retries_nr /\ AllFailed(Loads)

C1_Witness ==
    /\ PositionDriven
    /\ _retries_nr >= 2
    /\ Len(Loads) = _retries_nr
    /\ AllFailed(Loads)
    /\ last.exc = TableLoadFailed

(***************************************************************************)
(* C2: with a motor bound, a StateOne whose state read raises on every one *)
(* of the _retries_nr attempts does not raise and returns Alarm.           *)
(***************************************************************************)
StateUnreadable ==
    /\ last.op = "StateOne"
    /\ _motor_axis # None
    /\ Len(CallsOf("state")) = _retries_nr
    /\ AllFailed(CallsOf("state"))

C2_UnreadableStateIsAlarm ==
    StateUnreadable => last.exc = "none" /\ last.ret[1] = "Alarm"

C2_Witness ==
    StateUnreadable /\ _retries_nr >= 2 /\ last.ret[1] = "Alarm"

(***************************************************************************)
(* C3: a configure by time (no initial position) with more than one repeat *)
(* raises UnsupportedMultiplePulses and makes no call on the link.         *)
(***************************************************************************)
C3_MultiplePulsesRejected ==
    (TimeDriven /\ last.arg.nr > 1) =>
        /\ last.exc = UnsupportedMultiplePulses
        /\ last.calls = <<>>

C3_Witness ==
    /\ TimeDriven
    /\ last.arg.nr > 1
    /\ _motor_axis # None
    /\ last.exc = UnsupportedMultiplePulses

(***************************************************************************)
(* The table a configure is expected to pass to set_ecam_table.  SynchOne  *)
(* changes none of _motor_spu, _ecam_source, _start_trigger_only, so their *)
(* values in the probed state are those the configure used.                *)
(***************************************************************************)
\* <<steps_per_turn, turns>> of a feedback source.
Resolution(source) ==
    CASE source = "ENCIN" -> <<CfgReg("EINNSTEP"), CfgReg("EINNTURN")>>
      [] source = "ABSENC" -> <<CfgReg("ABSNSTEP"), CfgReg("ABSNTURN")>>
      [] source = "INPOS" -> <<CfgReg("INPNSTEP"), CfgReg("INPNTURN")>>
      [] source = "AXIS" -> <<CfgReg("ANSTEP"), CfgReg("ANTURN")>>

\* convert(value, Axis, source): identity for Axis, else value * ratio with
\* ratio = (source steps / source turns) / (axis steps / axis turns).
Convert(value, source) ==
    IF source = "AXIS" THEN value
    ELSE RMul(value, Rat(Resolution(source)[1] * Resolution("AXIS")[2],
                         Resolution(source)[2] * Resolution("AXIS")[1]))

UsedSource == Upper(_ecam_source)

ConvertedStart == Convert(RInt(last.arg.start * _motor_spu), UsedSource)

ConvertedDelta == Convert(RInt(last.arg.delta * _motor_spu), UsedSource)

Tables == [k \in 1..Len(Loads) |-> Loads[k].arg.table]

AllEqual(tb) == \A i \in 1..Len(tb) : tb[i] = tb[1]

(***************************************************************************)
(* C4, as claimed: a configure with more than MAX_ECAM_VALUES repeats      *)
(* raises TableTooLarge and loads no table, in any mode.                   *)
(***************************************************************************)
C4_AnyModeTooLarge ==
    (Configured /\ last.arg.nr > MAX_ECAM_VALUES) =>
        last.exc = TableTooLarge /\ Loads = <<>>

(***************************************************************************)
(* C4, amended: with more than MAX_ECAM_VALUES repeats, a configure by     *)
(* time raises UnsupportedMultiplePulses; a configure by position with     *)
(* StartTriggerOnly off passes no table to the device and, when a motor is *)
(* bound and every configuration read answered, raises TableTooLarge       *)
(* whatever the feedback source; with StartTriggerOnly on it passes only   *)
(* one-element tables.                                                     *)
(***************************************************************************)
C4_TooLargeRejected ==
    (Configured /\ last.arg.nr > MAX_ECAM_VALUES) =>
        /\ ~last.arg.initial =>
              last.exc = UnsupportedMultiplePulses /\ last.calls = <<>>
        /\ (last.arg.initial /\ ~_start_trigger_only) =>
              /\ Loads = <<>>
              /\ (_motor_axis # None /\ \A i \in 1..Len(last.calls) :
                                            last.calls[i].ok)
                    => last.exc = TableTooLarge
        /\ (last.arg.initial /\ _start_trigger_only) =>
              \A k \in 1..Len(Tables) : Len(Tables[k]) = 1

C4_Witness ==
    /\ PositionDriven
    /\ last.arg.nr > MAX_ECAM_VALUES
    /\ ~_start_trigger_only
    /\ UsedSource # "AXIS"
    /\ Len(last.calls) = 5
    /\ last.exc = TableTooLarge

(***************************************************************************)
(* C5: a configure by position with a zero step and more than one repeat   *)
(* is rejected; no table of several equal positions is passed to the       *)
(* device.                                                                 *)
(***************************************************************************)
C5_DegenerateRejected ==
    (PositionDriven /\ last.arg.delta = 0 /\ last.arg.nr > 1) =>
        \A k \in 1..Len(Tables) : ~(Len(Tables[k]) > 1 /\ AllEqual(Tables[k]))

ScenarioInput ==
    /\ PositionDriven
    /\ last.arg = [initial |-> TRUE, nr |-> 3, start |-> 0, delta |-> 1]
    /\ _motor_spu = 100
    /\ ~_start_trigger_only
    /\ UsedSource = "ENCIN"
    /\ Resolution("ENCIN") = <<10000, 1>>
    /\ Resolution("AXIS") = <<8000, 1>>
    /\ Len(Tables) > 0

C7_TableIsLinear ==
    /\ (/\ PositionDriven
        /\ last.arg.nr >= 1
        /\ last.arg.nr <= MAX_ECAM_VALUES
        /\ ~_start_trigger_only) =>
           \A k \in 1..Len(Tables) :
               /\ Len(Tables[k]) = last.arg.nr
               /\ \A i \in 1..Len(Tables[k]) :
                     Tables[k][i] =
                         RAdd(ConvertedStart, RMul(RInt(i - 1), ConvertedDelta))
    /\ ScenarioInput => Tables[1] = <<RInt(0), RInt(125), RInt(250)>>

C7_Witness ==
    ScenarioInput /\ Tables[1] = <<RInt(0), RInt(125), RInt(250)>> /\ last.exc = "none"

(***************************************************************************)
(* C8: a SetAxisPar 'active_input' with the motor id that is already bound *)
(* (_last_id before the call) makes none of the multiplexer calls          *)
(* get_pmux, clear_pmux, add_pmux; neither does any configure.             *)
(***************************************************************************)
PmuxCalls ==
    SelectSeq(last.calls,
              LAMBDA c : c.call \in {"get_pmux", "clear_pmux", "add_pmux"})

Rebind ==
    /\ last.op = "SetAxisPar"
    /\ last.pre_last_id # None
    /\ last.arg.value = last.pre_last_id

C8_RebindSkipsMultiplexer ==
    (Rebind \/ Configured) => PmuxCalls = <<>>

C8_Witness ==
    /\ Rebind
    /\ last.arg.axis = 0
    /\ last.arg.par = "active_input"
    /\ last.exc = "none"
    /\ Len(last.calls) = 2
    /\ <<last.arg.value, "E0">> \in pmux

(***************************************************************************)
(* C9: with a motor bound, AbortOne requests the level LOW and does not    *)
(* raise, whether or not the calls it makes on the link fail.              *)
(***************************************************************************)
C9_AbortNeverRaises ==
    (last.op = "AbortOne" /\ _motor_axis # None) =>
        /\ last.calls # <<>>
        /\ last.calls[1].arg = LOW
        /\ last.exc = "none"

(***************************************************************************)
(* C10: StartOne follows the mode of the most recent accepted configure.   *)
(* A StartOne that completes has, in time mode, written exactly HIGH and   *)
(* then LOW and sent no esync, and in position mode written no level and   *)
(* sent one esync if _is_tgtenc and none otherwise; and the mode it reads  *)
(* (_time_mode) is that of the most recent accepted configure: a configure *)
(* that completes records its mode, one that raises leaves the mode as it  *)
(* was.                                                                    *)
(***************************************************************************)
LevelsWritten ==
    LET w == SelectSeq(last.calls,
                       LAMBDA c : c.call = "syncaux"
                                  \/ \E i \in 1..Len(AxisInfos) :
                                        c.call = AxisInfos[i])
    IN  [i \in 1..Len(w) |-> w[i].arg]

StartFollowsRecordedMode ==
    (last.op = "StartOne" /\ last.exc = "none") =>
        IF _time_mode
        THEN LevelsWritten = <<HIGH, LOW>> /\ CallsOf("esync") = <<>>
        ELSE /\ LevelsWritten = <<>>
             /\ Len(CallsOf("esync")) = IF _is_tgtenc THEN 1 ELSE 0

ModeIsOfAcceptedConfigure ==
    Configured =>
        _time_mode = IF last.exc = "none" THEN ~last.arg.initial
                     ELSE last.pre_time_mode

C10_StartFollowsAcceptedConfigure ==
    StartFollowsRecordedMode /\ ModeIsOfAcceptedConfigure

(***************************************************************************)
(* C11: PreStartOne writes no level but the one of the recorded mode: LOW  *)
(* in time mode, ECAM otherwise, and never HIGH.  With a motor bound it    *)
(* requests exactly one write on axis 0 (syncaux) and one per info output  *)
(* on another axis, and it returns True when the write is answered.        *)
(***************************************************************************)
PreArmLevel == IF _time_mode THEN LOW ELSE ECAM

C11_PreStartWritesModeLevel ==
    last.op = "PreStartOne" =>
        /\ \A i \in 1..Len(LevelsWritten) :
               LevelsWritten[i] = PreArmLevel /\ LevelsWritten[i] # HIGH
        /\ _motor_axis # None =>
               Len(LevelsWritten) =
                   IF last.arg.axis = 0 THEN 1 ELSE Len(AxisInfos)
        /\ last.exc = "none" => last.ret = "True"

C11_Witness ==
    /\ last.op = "PreStartOne"
    /\ last.arg.axis = 0
    /\ _motor_axis # None
    /\ ~_time_mode
    /\ LevelsWritten = <<ECAM>>
    /\ last.exc = "none"

(***************************************************************************)
(* C12: with StartTriggerOnly on, every table a configure by position      *)
(* passes to the device is the one-element table [converted start],        *)
(* whatever the number of repeats, and on an answering link with a motor   *)
(* bound it is loaded.  getStartTriggerOnly returns the value in force,    *)
(* which is the argument of the last setStartTriggerOnly: the setter       *)
(* stores its argument and no other operation changes the flag.            *)
(***************************************************************************)
AllAnswered == \A i \in 1..Len(last.calls) : last.calls[i].ok

C12_StartTriggerOnly ==
    /\ (PositionDriven /\ _start_trigger_only) =>
          /\ \A k \in 1..Len(Tables) : Tables[k] = <<ConvertedStart>>
          /\ (_motor_axis # None /\ AllAnswered) =>
                Len(Tables) = 1 /\ last.exc = "none"
    /\ last.op = "setStartTriggerOnly" =>
          _start_trigger_only = last.arg.value
    /\ last.op = "getStartTriggerOnly" =>
          last.ret = last.pre._start_trigger_only
    /\ last.op \notin {"init", "setStartTriggerOnly"} =>
          _start_trigger_only = last.pre._start_trigger_only

C12_Witness ==
    /\ PositionDriven
    /\ _start_trigger_only
    /\ last.arg.nr = MaxPoints
    /\ last.arg.start # 0
    /\ UsedSource = "ENCIN"
    /\ Tables = << <<ConvertedStart>> >>
    /\ last.exc = "none"

(***************************************************************************)
(* C13: a configure by position in which the read of a configuration       *)
(* register (TGTENC or a resolution register) fails raises to the caller;  *)
(* the failed read is the last call of the configure (it is not retried)   *)
(* and no table is passed to the device.                                   *)
(***************************************************************************)
ConfigReadFailed ==
    /\ PositionDriven
    /\ \E i \in 1..Len(last.calls) :
           last.calls[i].call = "get_cfg" /\ ~last.calls[i].ok

C13_ConfigUnavailableRaises ==
    ConfigReadFailed =>
        /\ last.exc # "none"
        /\ ~last.calls[Len(last.calls)].ok
        /\ Len(SelectSeq(last.calls, LAMBDA c : ~c.ok)) = 1
        /\ Loads = <<>>

(***************************************************************************)
(* C14: every table a configure by position passes to the device is        *)
(* converted for, and passed with, the feedback source configured for the  *)
(* bound axis: Axis when EcamSource has no entry for the axis or names an  *)
(* unsupported source, else the entry (TGTENC standing for the encoder the *)
(* TGTENC register names), whatever operations came before.                *)
(***************************************************************************)
ConfiguredSource(axis) ==
    LET d == _ecam_source_dict
    IN  IF DOMAIN d = {} \/ axis \notin DOMAIN d THEN "AXIS"
        ELSE LET enc == IF Upper(d[axis]) = "TGTENC" THEN tgtenc
                        ELSE Upper(d[axis])
             IN  IF enc \in ECAM_SOURCE_VALUES THEN enc ELSE "AXIS"

C14_SourceResolvedAtConfigure ==
    PositionDriven =>
        \A k \in 1..Len(Loads) :
            /\ Upper(Loads[k].arg.source) = ConfiguredSource(_motor_axis)
            /\ Loads[k].arg.table[1] =
                   Convert(RInt(last.arg.start * _motor_spu),
                           ConfiguredSource(_motor_axis))

(***************************************************************************)
(* C15: a SetAxisPar 'active_input' on axis 0 that binds another motor     *)
(* than the last bound one and completes has cleared line e0 before adding *)
(* its link if e0 was linked, and leaves exactly the link of the bound     *)
(* motor on e0; one that completes for the motor already bound leaves the  *)
(* multiplexer as it was; and e0 never holds more than one link.           *)
(***************************************************************************)
E0Links(links) == {l \in links : l[2] = "E0"}

Bind ==
    /\ last.op = "SetAxisPar"
    /\ last.arg.axis = 0
    /\ last.arg.par = "active_input"
    /\ last.exc = "none"

\* Position of the first call of that name in the recorded calls (0: none).
FirstCall(name) ==
    IF \E i \in 1..Len(last.calls) : last.calls[i].call = name
    THEN CHOOSE i \in 1..Len(last.calls) :
             /\ last.calls[i].call = name
             /\ \A j \in 1..(i - 1) : last.calls[j].call # name
    ELSE 0

C15_BindReplacesLink ==
    /\ Cardinality(E0Links(pmux)) <= 1
    /\ (Bind /\ last.arg.value # last.pre_last_id) =>
          /\ E0Links(last.pre.pmux) # {} =>
                /\ FirstCall("clear_pmux") > 0
                /\ FirstCall("clear_pmux") < FirstCall("add_pmux")
          /\ Len(CallsOf("add_pmux")) = 1
          /\ E0Links(pmux) = {<<last.arg.value, "E0">>}
    /\ (Bind /\ last.arg.value = last.pre_last_id) => pmux = last.pre.pmux

C15_Witness ==
    /\ Bind
    /\ last.arg.value # last.pre_last_id
    /\ E0Links(last.pre.pmux) = {<<last.pre_last_id, "E0">>}
    /\ FirstCall("clear_pmux") > 0
    /\ pmux = {<<last.arg.value, "E0">>}

(***************************************************************************)
(* C16, as claimed: a SetAxisPar 'active_input' with the motor id already  *)
(* bound does not read step_per_unit and changes none of the cached        *)
(* step_per_unit, the axis id and the feedback source.                     *)
(***************************************************************************)
RebindAxis0 ==
    Rebind /\ last.arg.axis = 0 /\ last.arg.par = "active_input"

StateReadOk ==
    /\ last.op = "StateOne"
    /\ last.calls # <<>>
    /\ last.calls[Len(last.calls)].ok

C17_StateClassification ==
    last.op = "StateOne" =>
        /\ last.exc = "none"
        /\ _motor_axis = None => last.calls = <<>> /\ last.ret[1] = "On"
        /\ _motor_axis # None =>
              /\ last.calls = CallsOf("state")
              /\ Len(last.calls) >= 1
              /\ Len(last.calls) <= _retries_nr
              /\ \A i \in 1..(Len(last.calls) - 1) : ~last.calls[i].ok
        /\ StateReadOk =>
              last.ret[1] = IF ~last.arg.poweron THEN "Alarm"
                            ELSE IF last.arg.moving \/ last.arg.settling
                                 THEN "Moving"
                            ELSE "On"

C17_Witness ==
    /\ StateReadOk
    /\ Len(last.calls) = 2
    /\ last.arg = [poweron |-> TRUE, moving |-> FALSE, settling |-> TRUE]
    /\ last.ret[1] = "Moving"

(***************************************************************************)
(* C18: whenever _last_id records motor m, the multiplexer links m to line *)
(* e0; and after a SetAxisPar 'active_input' that raised before its link   *)
(* was added, a SetAxisPar of the same id calls the multiplexer again.     *)
(***************************************************************************)
MultiplexerCalled(s) ==
    \E i \in 1..Len(s.calls) :
        s.calls[i].call \in {"get_pmux", "clear_pmux", "add_pmux"}

C18_LastIdIsLinked ==
    /\ _last_id # None => <<_last_id, "E0">> \in pmux
    /\ (/\ last.op = "SetAxisPar"
        /\ last.arg.axis = 0
        /\ last.arg.par = "active_input"
        /\ last.exc # "none"
        /\ <<last.arg.value, "E0">> \notin pmux) =>
           MultiplexerCalled(SetAxisPar(Self, 0, 0, "active_input",
                                        last.arg.value))

(***************************************************************************)
(* C19: a StartOne in time mode, however it ends, does not leave the       *)
(* output at HIGH: the last level it has written is not HIGH.              *)
(***************************************************************************)
WrittenLevels ==
    LET w == SelectSeq(last.calls,
                       LAMBDA c : c.ok /\ (c.call = "syncaux"
                                           \/ \E i \in 1..Len(AxisInfos) :
                                                 c.call = AxisInfos[i]))
    IN  [i \in 1..Len(w) |-> w[i].arg]

C19_StartLeavesOutputLow ==
    (last.op = "StartOne" /\ last.pre_time_mode) =>
        \/ WrittenLevels = <<>>
        \/ WrittenLevels[Len(WrittenLevels)] # HIGH

(***************************************************************************)
(* C20: after a configure by position that failed (it raised, or returned  *)
(* False on an unreadable register), a following PreStartOne does not      *)
(* write ECAM; after an accepted configure by time it does not either.     *)
(***************************************************************************)
FailedConfigure ==
    PositionDriven /\ (last.exc # "none" \/ last.ret = "False")

PreArmWritesEcam ==
    \E axis \in Axes :
        LET s == PreStartOne(Self, 0, axis)
        IN  \E i \in 1..Len(s.calls) : s.calls[i].arg = ECAM

C20_NoArmAfterFailedConfigure ==
    /\ FailedConfigure => ~PreArmWritesEcam
    /\ (TimeDriven /\ last.exc = "none") => ~PreArmWritesEcam

====
